---- MODULE Spec2Model ----
(***************************************************************************)
(* AuthManager (JWT session + fetch wrapper) of CAMPS PDF Manager v2, and  *)
(* the page modules that use it: ApiClient.upload, BatchModule,            *)
(* DocumentsModule and UploadModule.                                       *)
(* The three copies of the class (unnamed/part_001, part_000, part_005)    *)
(* have the same control flow; line numbers refer to unnamed/part_001.     *)
(*                                                                         *)
(* Execution model: one browser event loop.  An async method runs without  *)
(* interruption up to its next await on the network; every action below is *)
(* one such run-to-suspension segment (including the microtask chain that  *)
(* follows the resolution of a promise).  `await fetch` followed by        *)
(* `await response.json()` is one segment: nothing of the manager's state  *)
(* is read or written between the two.                                     *)
(***************************************************************************)
EXTENDS Naturals, Sequences, FiniteSets, TLC

VARIABLES
    alive,            \* the module-level `new AuthManager()` returned
    mem,              \* this.token, this.refreshToken, this.user
    ls,               \* localStorage keys access_token, refresh_token, user
    tasks,            \* the async calls in flight, one record per slot
    reloadRequested,  \* window.location.reload() was called, page not yet replaced
    logoutStreak,     \* history: logout() calls in a row (saturates at two)
    last,             \* history: the call that ended in the last step, if any
    before,           \* history: the Session before the step that ended it
    query,            \* history: the last hasPermission call and its outcome
    poll,             \* BatchModule.pollStatus: its interval, closure and requests
    sel,              \* the selectedDocuments sets of DocumentsModule and BatchModule
    selectedFiles     \* UploadModule.selectedFiles

vars == <<alive, mem, ls, tasks, reloadRequested, logoutStreak, last, before, query,
          poll, sel, selectedFiles>>

\* the state of the AuthManager, and the state of the page modules
authVars == <<alive, mem, ls, tasks, reloadRequested, logoutStreak, last, before, query>>
pageVars == <<poll, sel, selectedFiles>>

----------------------------------------------------------------------------
(* Bounds *)

NumTasks == 2           \* concurrent async calls
MaxInFlight == 2        \* status requests of one poll waiting for their answer
MaxTicks == 32          \* timer ticks of one poll that are followed
MaxBatch == 3           \* files handed to one addFiles call
NumDocs == 5            \* documents listed on the page

Tasks == 1..NumTasks

----------------------------------------------------------------------------
(* JavaScript values *)

Null      == [t |-> "null",  v |-> ""]
Undefined == [t |-> "undef", v |-> ""]
Str(s)    == [t |-> "str",   v |-> s]
\* a principal object {id, name, role, isActive}; only role is ever read
Obj(role) == [t |-> "obj",   v |-> role]
\* the string JSON.stringify produces for a principal object
JsonStr(role) == [t |-> "json", v |-> role]

\* !!x
Truthy(x) == x.t \notin {"null", "undef"} /\ x # Str("")

\* String(x), the conversion localStorage.setItem and template literals apply
ToStr(x) ==
    CASE x.t = "null"  -> Str("null")
      [] x.t = "undef" -> Str("undefined")
      [] x.t = "obj"   -> Str("[object Object]")
      [] OTHER         -> x

\* JSON.stringify(x): undefined stays undefined, null becomes "null"
JSONStringify(x) ==
    CASE x.t = "undef" -> Undefined
      [] x.t = "null"  -> Str("null")
      [] x.t = "obj"   -> JsonStr(x.v)
      [] OTHER         -> x

\* JSON.parse(s) either returns a value or throws SyntaxError
JSONParseThrows(s) == ~(s.t = "json" \/ s = Str("null"))
JSONParse(s) == IF s.t = "json" THEN Obj(s.v) ELSE Null

\* `Bearer ${x}`: the model keeps the credential part of the header
Bearer(x) == ToStr(x)

----------------------------------------------------------------------------
(* localStorage *)

\* absent keys read as null
getItem(store, k) == store[k]
setItem(store, k, x) == [store EXCEPT ![k] = ToStr(x)]
removeItem(store, k) == [store EXCEPT ![k] = Null]

EmptyStore == [access_token |-> Null, refresh_token |-> Null, user |-> Null]
NoSession  == [token |-> Null, refreshToken |-> Null, user |-> Null]

----------------------------------------------------------------------------
(* AuthManager: the synchronous effects on the Session (memory + storage) *)

\* constructor: JSON.parse(localStorage.getItem('user') || 'null')
UserSource(store) ==
    IF Truthy(getItem(store, "user")) THEN getItem(store, "user") ELSE Str("null")

ConstructorThrows(store) == JSONParseThrows(UserSource(store))

Constructed(store) ==
    [token        |-> getItem(store, "access_token"),
     refreshToken |-> getItem(store, "refresh_token"),
     user         |-> JSONParse(UserSource(store))]

\* mutant of logout: the storage keys are left behind
logout_MemoryOnly(s) ==
    [mem |-> [token |-> Null, refreshToken |-> Null, user |-> Null],
     ls  |-> s.ls]

\* logout(): the three fields set to null, the three keys removed
logout(s) ==
    [mem |-> [token |-> Null, refreshToken |-> Null, user |-> Null],
     ls  |-> removeItem(removeItem(removeItem(s.ls, "access_token"),
                                   "refresh_token"), "user")]

\* mutant of RefreshStore: the new token is written to the storage only
RefreshStore_StorageOnly(s, data) ==
    [mem |-> s.mem,
     ls  |-> setItem(s.ls, "access_token", data.access_token)]

\* mutant of RefreshStore: the refresh also takes a refresh_token from the payload
RefreshStore_Rotates(s, data) ==
    [mem |-> [s.mem EXCEPT !.token = data.access_token, !.refreshToken = Undefined],
     ls  |-> setItem(setItem(s.ls, "access_token", data.access_token),
                     "refresh_token", Undefined)]

\* refreshAccessToken, branch `if (response.ok)`: this.token = data.access_token
\* and localStorage.setItem('access_token', this.token)
RefreshStore(s, data) ==
    [mem |-> [s.mem EXCEPT !.token = data.access_token],
     ls  |-> setItem(s.ls, "access_token", data.access_token)]

\* login, branch `if (response.ok)`: the three assignments and the three setItem
LoginStore(s, data) ==
    [mem |-> [token        |-> data.access_token,
              refreshToken |-> data.refresh_token,
              user         |-> data.user],
     ls  |-> setItem(setItem(setItem(s.ls,
                 "access_token", data.access_token),
                 "refresh_token", data.refresh_token),
                 "user", JSONStringify(data.user))]

\* console.log(..., this.user.name) throws TypeError on a null/undefined user
LoginLogThrows(m) == m.user.t \in {"null", "undef"}

isAuthenticated(m) == Truthy(m.token) /\ Truthy(m.user)

\* hasRole returns `this.user && this.user.role === role`; its truthiness
hasRole(m, role) == Truthy(m.user) /\ m.user.t = "obj" /\ m.user.v = role

getToken(m) == m.token

\* mutant of NotAuthenticated: the guard is missing
NotAuthenticated_Skipped(m) == FALSE

\* fetchWithAuth: `if (!this.token) throw new Error('Nao autenticado')`
NotAuthenticated(m) == ~Truthy(m.token)

\* mutant of NoRefreshToken: the guard is missing
NoRefreshToken_Skipped(m) == FALSE

\* refreshAccessToken: `if (!this.refreshToken) { this.logout(); return false; }`
NoRefreshToken(m) == ~Truthy(m.refreshToken)

Sess == [mem |-> mem, ls |-> ls]
NoSess == [mem |-> NoSession, ls |-> EmptyStore]

----------------------------------------------------------------------------
(* hasPermission *)

\* own keys of the `permissions` object literal
OwnRoles == {"admin", "user", "viewer"}

permissions(role) ==
    CASE role = "admin"  -> {"create", "read", "update", "delete", "manage_users"}
      [] role = "user"   -> {"create", "read", "update"}
      [] role = "viewer" -> {"read"}
      [] OTHER           -> {}

\* keys every object literal inherits from Object.prototype: permissions[k] is
\* then a function or object without an `includes` method
InheritedKeys == {"constructor", "toString", "__proto__"}

\* "true" / "false", or "TypeError" when `?.includes` is not a function
hasPermission(m, permission) ==
    IF ~Truthy(m.user) THEN "false"
    ELSE IF m.user.v \in OwnRoles
         THEN (IF permission \in permissions(m.user.v) THEN "true" ELSE "false")
    ELSE IF m.user.v \in InheritedKeys THEN "TypeError"
    ELSE "false"

----------------------------------------------------------------------------
(* Inputs: what callers pass and what the backend answers *)

AccessTokens  == {"a1", "a2"}
RefreshTokens == {"r1"}
LoginRoles    == {"admin", "viewer"}

\* options of fetchWithAuth(url, options); hAuth / hCT are the caller's own
\* Authorization / Content-Type headers, Undefined when not given
Options ==
    { [url |-> "/documents", method |-> "GET",  body |-> "none",
       hAuth |-> Undefined, hCT |-> Undefined],
      [url |-> "/documents", method |-> "POST", body |-> "json",
       hAuth |-> Undefined, hCT |-> Str("application/json")],
      [url |-> "/auth/users", method |-> "GET", body |-> "none",
       hAuth |-> Str("custom"), hCT |-> Undefined] }

\* status of a response, or "neterr" when fetch rejects
Responses == {"200", "401", "500", "neterr"}

\* answers of POST /auth/refresh: 2xx with a JSON body (access_token possibly
\* missing), non-2xx, a rejected fetch, a body that is not JSON
RefreshAnswers ==
    { [kind |-> "2xx", access_token |-> Str(a)] : a \in AccessTokens }
    \cup { [kind |-> "2xx", access_token |-> Undefined],
           [kind |-> "403", access_token |-> Undefined],
           [kind |-> "neterr", access_token |-> Undefined],
           [kind |-> "badjson", access_token |-> Undefined] }

\* answers of POST /auth/login
LoginAnswers ==
    { [kind |-> "2xx", access_token |-> Str(a), refresh_token |-> Str(r),
       user |-> Obj(ro)] : a \in AccessTokens, r \in RefreshTokens, ro \in LoginRoles }
    \cup { [kind |-> "2xx", access_token |-> Str("a1"), refresh_token |-> Str("r1"),
            user |-> Undefined],
           [kind |-> "401", access_token |-> Undefined, refresh_token |-> Undefined,
            user |-> Undefined],
           [kind |-> "neterr", access_token |-> Undefined, refresh_token |-> Undefined,
            user |-> Undefined] }

----------------------------------------------------------------------------
(* One async call *)

NoOpts == [url |-> "", method |-> "", body |-> "", hAuth |-> Undefined, hCT |-> Undefined]
NoReq  == [url |-> "", method |-> "", body |-> "", auth |-> Undefined, ctype |-> Undefined]
NoAnswer == [kind |-> "none", access_token |-> Undefined]

IdleTask ==
    [op     |-> "none",    \* fetch | refresh | login
     pc     |-> "idle",    \* await1 | awaitRefresh | await2 | awaitLogin | done
     opts   |-> NoOpts,    \* the caller's options object
     req    |-> NoReq,     \* requestOptions
     nsent  |-> 0,         \* history: requests dispatched by fetchWithAuth
     got    |-> <<>>,      \* history: their responses
     rcalls |-> 0,         \* history: invocations of refreshAccessToken
     rnet   |-> 0,         \* history: requests to /auth/refresh
     rreq   |-> Undefined, \* history: the credential of the request to /auth/refresh
     rans   |-> NoAnswer,  \* history: the answer of /auth/refresh
     result |-> "none",    \* how the call ended
     clean  |-> TRUE]      \* history: nothing else changed the Session during the retry

\* requestOptions = {...options, headers: {Content-Type, Authorization, ...options.headers}}
BuildRequest(opts, m) ==
    [url    |-> opts.url,
     method |-> opts.method,
     body   |-> opts.body,
     auth   |-> IF opts.hAuth = Undefined THEN Bearer(m.token) ELSE opts.hAuth,
     ctype  |-> IF opts.hCT = Undefined THEN Str("application/json") ELSE opts.hCT]

\* mutant of RetryRequest: the header is not rebuilt before the retry
RetryRequest_Stale(req, m) == req

\* requestOptions.headers['Authorization'] = `Bearer ${this.token}`
RetryRequest(req, m) == [req EXCEPT !.auth = Bearer(m.token)]

\* mutant of FetchRejects: a failed fetch is caught and handed on like a response
FetchRejects_Swallowed(resp) == FALSE

\* `await fetch(url, requestOptions)` has no try/catch: a rejected fetch rejects
\* fetchWithAuth
FetchRejects(resp) == resp = "neterr"

\* mutant of ShouldRefresh: every error status of the first response is answered
\* with a refresh
ShouldRefresh_AnyError(attempt, resp) == attempt = 1 /\ resp \in {"401", "500"}

\* mutant of ShouldRefresh: every 401 is answered with a refresh and a retry
ShouldRefresh_EveryTime(attempt, resp) == resp = "401"

\* `if (response.status === 401)` follows the first fetch only
ShouldRefresh(attempt, resp) == attempt = 1 /\ resp = "401"

\* refreshAccessToken: `if (response.ok)` after `await response.json()` succeeded
\* (part_005 tests `data.success` of the body instead; the branches are the same)
RefreshOk(ans) == ans.kind = "2xx"

\* login: `if (response.ok)` after `await response.json()` succeeded
LoginOk(ans) == ans.kind = "2xx"

----------------------------------------------------------------------------
(* Actions: one per run-to-suspension segment *)

\* Bookkeeping shared by the segments: task t (0 for a synchronous caller)
\* becomes task2, the Session becomes s2, calledLogout tells whether logout()
\* ran (it ends with window.location.reload()).  A call that ended leaves its
\* record in `last` for one step and frees its slot.
Commit(t, task2, s2, calledLogout) ==
    /\ mem' = s2.mem
    /\ ls' = s2.ls
    /\ tasks' = [u \in Tasks |->
                    IF u = t THEN (IF task2.pc = "done" THEN IdleTask ELSE task2)
                    ELSE IF tasks[u].pc = "await2" /\ s2 # Sess
                         THEN [tasks[u] EXCEPT !.clean = FALSE]
                         ELSE tasks[u]]
    /\ last' = IF task2.pc = "done" THEN task2 ELSE IdleTask
    /\ before' = IF task2.pc = "done" THEN Sess ELSE NoSess
    /\ reloadRequested' = (reloadRequested \/ calledLogout)
    /\ logoutStreak' = IF calledLogout
                       THEN (IF logoutStreak < 2 THEN logoutStreak + 1 ELSE 2)
                       ELSE 0
    /\ UNCHANGED <<alive, query>>
    /\ UNCHANGED pageVars

\* calls are started in the lowest free slot (the slots are interchangeable)
FreeSlot(t) ==
    /\ tasks[t].pc = "idle"
    /\ \A u \in Tasks : u < t => tasks[u].pc # "idle"

\* mutant of RefreshBegin: single-flight, a call that finds a refresh in flight
\* waits for it and sends no request of its own
RefreshBegin_Joins(tk, s) ==
    IF NoRefreshToken(s.mem)
    THEN <<[tk EXCEPT !.rcalls = @ + 1, !.pc = "refreshFalse"], logout(s), TRUE>>
    ELSE IF \E u \in Tasks : tasks[u].pc = "awaitRefresh"
    THEN <<[tk EXCEPT !.rcalls = @ + 1, !.pc = "awaitRefresh"], s, FALSE>>
    ELSE <<[tk EXCEPT !.rcalls = @ + 1, !.rnet = @ + 1,
                      !.rreq = Bearer(s.mem.refreshToken), !.pc = "awaitRefresh"], s, FALSE>>

\* refreshAccessToken up to its first suspension, called from task record tk:
\* the guard on this.refreshToken, else the request to /auth/refresh.
\* Returns <<task, session, calledLogout>>; pc "refreshFalse" stands for the
\* promise already resolved with false.
RefreshBegin(tk, s) ==
    IF NoRefreshToken(s.mem)
    THEN <<[tk EXCEPT !.rcalls = @ + 1, !.pc = "refreshFalse"], logout(s), TRUE>>
    ELSE <<[tk EXCEPT !.rcalls = @ + 1, !.rnet = @ + 1,
                      !.rreq = Bearer(s.mem.refreshToken), !.pc = "awaitRefresh"], s, FALSE>>

\* mutant of RefreshEnd: a failed refresh returns false without logout()
RefreshEnd_NoTeardown(s, ans) ==
    IF RefreshOk(ans)
    THEN <<TRUE, RefreshStore(s, ans), FALSE>>
    ELSE <<FALSE, s, FALSE>>

\* refreshAccessToken after the answer arrived: <<returned value, session, calledLogout>>
RefreshEnd(s, ans) ==
    IF RefreshOk(ans)
    THEN <<TRUE, RefreshStore(s, ans), FALSE>>
    ELSE <<FALSE, logout(s), TRUE>>

\* mutant of AfterRefresh: a failed refresh makes fetchWithAuth return undefined
\* instead of throwing
AfterRefresh_Swallowed(tk, refreshed, s) ==
    IF refreshed
    THEN [tk EXCEPT !.req = RetryRequest(tk.req, s.mem),
                    !.nsent = @ + 1,
                    !.pc = "await2"]
    ELSE [tk EXCEPT !.pc = "done", !.result = "undefined"]

\* fetchWithAuth after `await this.refreshAccessToken()`
AfterRefresh(tk, refreshed, s) ==
    IF refreshed
    THEN [tk EXCEPT !.req = RetryRequest(tk.req, s.mem),
                    !.nsent = @ + 1,
                    !.pc = "await2"]
    ELSE [tk EXCEPT !.pc = "done", !.result = "SessionExpired"]

\* fetchWithAuth(url, options) up to `await fetch(url, requestOptions)`
FetchStart(t, opts) ==
    /\ alive
    /\ FreeSlot(t)
    /\ IF NotAuthenticated(mem)
       THEN Commit(t, [IdleTask EXCEPT !.op = "fetch", !.opts = opts, !.pc = "done",
                                       !.result = "Unauthenticated"], Sess, FALSE)
       ELSE Commit(t, [IdleTask EXCEPT !.op = "fetch", !.opts = opts, !.pc = "await1",
                                       !.req = BuildRequest(opts, mem),
                                       !.nsent = 1], Sess, FALSE)

\* a response (or a network failure) of the request or of its retry
FetchResp(t, resp) ==
    /\ tasks[t].op = "fetch"
    /\ tasks[t].pc \in {"await1", "await2"}
    /\ LET tk == [tasks[t] EXCEPT !.got = Append(@, resp)]
       IN  IF FetchRejects(resp)
           THEN Commit(t, [tk EXCEPT !.pc = "done", !.result = "TransportFailure"],
                       Sess, FALSE)
           ELSE IF ShouldRefresh(Len(tk.got), resp)
           THEN LET b == RefreshBegin(tk, Sess)
                IN  IF b[1].pc = "refreshFalse"
                    THEN Commit(t, AfterRefresh(b[1], FALSE, b[2]), b[2], b[3])
                    ELSE Commit(t, b[1], b[2], b[3])
           ELSE Commit(t, [tk EXCEPT !.pc = "done", !.result = resp], Sess, FALSE)

\* refreshAccessToken() called on its own
RefreshStart(t) ==
    /\ alive
    /\ FreeSlot(t)
    /\ LET b == RefreshBegin([IdleTask EXCEPT !.op = "refresh"], Sess)
       IN  IF b[1].pc = "refreshFalse"
           THEN Commit(t, [b[1] EXCEPT !.pc = "done", !.result = "false"], b[2], b[3])
           ELSE Commit(t, b[1], b[2], b[3])

\* the answer of /auth/refresh, then the caller's continuation
RefreshResp(t, ans) ==
    /\ tasks[t].pc = "awaitRefresh"
    /\ LET e  == RefreshEnd(Sess, ans)
           tk == [tasks[t] EXCEPT !.rans = ans]
       IN  IF tasks[t].op = "fetch"
           THEN Commit(t, AfterRefresh(tk, e[1], e[2]), e[2], e[3])
           ELSE Commit(t, [tk EXCEPT !.pc = "done",
                                     !.result = IF e[1] THEN "true" ELSE "false"],
                       e[2], e[3])

\* login(email, password) up to `await fetch(.../auth/login)`
LoginStart(t) ==
    /\ alive
    /\ FreeSlot(t)
    /\ Commit(t, [IdleTask EXCEPT !.op = "login", !.pc = "awaitLogin"], Sess, FALSE)

\* login after the answer: <<result, session>>
LoginEnd(s, ans) ==
    IF LoginOk(ans)
    THEN IF LoginLogThrows(LoginStore(s, ans).mem)
         THEN <<"loginFail", LoginStore(s, ans)>>
         ELSE <<"loginOk", LoginStore(s, ans)>>
    ELSE <<"loginFail", s>>

LoginResp(t, ans) ==
    /\ tasks[t].pc = "awaitLogin"
    /\ LET e == LoginEnd(Sess, ans)
       IN  Commit(t, [tasks[t] EXCEPT !.pc = "done", !.result = e[1]], e[2], FALSE)

\* logout() called by the page (it is synchronous)
Logout ==
    /\ alive
    /\ Commit(0, IdleTask, logout(Sess), TRUE)

\* a caller of fetchWithAuth that sends a FormData body and sets no header
MultipartOptions ==
    [url |-> "/documents/upload", method |-> "POST", body |-> "multipart",
     hAuth |-> Undefined, hCT |-> Undefined]

\* ApiClient.upload: xhr.open('POST', url), the Authorization header built
\* from this.auth.getToken(), xhr.send(formData); no other header is set
UploadRequest(m) ==
    [url |-> "/documents/upload", method |-> "POST", body |-> "multipart",
     auth |-> Bearer(getToken(m)), ctype |-> Undefined]

\* ApiClient.upload(endpoint, formData) up to xhr.send: there is no guard on
\* the token
UploadStart(t) ==
    /\ alive
    /\ FreeSlot(t)
    /\ Commit(t, [IdleTask EXCEPT !.op = "upload", !.pc = "awaitUpload",
                                  !.req = UploadRequest(mem), !.nsent = 1],
              Sess, FALSE)

\* mutant of UploadEnd: a 401 of the upload ends the session
UploadEnd_Logout(s, resp) ==
    IF resp = "neterr" THEN <<"UploadFailed", s, FALSE>>
    ELSE IF resp = "200" THEN <<"resolved", s, FALSE>>
    ELSE IF resp = "401" THEN <<"UploadFailed", logout(s), TRUE>>
    ELSE <<"UploadFailed", s, FALSE>>

\* the listeners of the XMLHttpRequest: 'error' rejects, 'load' resolves on a
\* status from 200 to 299 and rejects on any other;
\* <<result, session, calledLogout>>
UploadEnd(s, resp) ==
    IF resp = "neterr" THEN <<"UploadFailed", s, FALSE>>
    ELSE IF resp = "200" THEN <<"resolved", s, FALSE>>
    ELSE <<"UploadFailed", s, FALSE>>

UploadResp(t, resp) ==
    /\ tasks[t].pc = "awaitUpload"
    /\ LET e == UploadEnd(Sess, resp)
       IN  Commit(t, [tasks[t] EXCEPT !.got = Append(@, resp), !.pc = "done",
                                     !.result = e[1]], e[2], e[3])

\* The page is replaced (the reload logout() asked for, or the user's own):
\* every call in flight is dropped and `new AuthManager()` reads the storage.
Reload ==
    /\ alive' = ~ConstructorThrows(ls)
    /\ mem' = IF ConstructorThrows(ls) THEN NoSession ELSE Constructed(ls)
    /\ tasks' = [u \in Tasks |-> IdleTask]
    /\ last' = IdleTask
    /\ before' = NoSess
    /\ reloadRequested' = FALSE
    /\ logoutStreak' = 0
    /\ UNCHANGED <<ls, query>>
    /\ UNCHANGED pageVars

NoQuery == [kind |-> "none", arg |-> "", result |-> "none"]

\* pollStatus not called yet
NoPoll ==
    [started  |-> FALSE,   \* pollStatus(taskId) was called
     active   |-> FALSE,   \* the interval is armed (not cleared)
     attempts |-> 0,       \* `attempts` of the closure
     inflight |-> 0,       \* status requests waiting for their answer
     requests |-> 0,       \* history: status requests issued
     reported |-> "none",  \* history: the terminal status a response reported
     finished |-> 0,       \* history: calls of finishBatch (saturates at two)
     timeouts |-> 0,       \* history: timeout toasts (saturates at two)
     lateTimeout |-> FALSE] \* history: a timeout toast with or after finishBatch

\* both modules are constructed with a `new Set()` of their own
NoSelection ==
    [docs   |-> {},        \* DocumentsModule.selectedDocuments
     batch  |-> {},        \* BatchModule.selectedDocuments
     same   |-> FALSE,     \* the two fields refer to the same Set object
     pc     |-> "idle",    \* deleteSelected: idle | awaitDelete
     ended  |-> "none"]    \* history: how deleteSelected ended in the last step

PageInit ==
    /\ poll = NoPoll
    /\ sel = NoSelection
    /\ selectedFiles = <<>>

Init ==
    /\ PageInit
    /\ alive = TRUE
    /\ ls = EmptyStore
    /\ mem = Constructed(EmptyStore)
    /\ tasks = [u \in Tasks |-> IdleTask]
    /\ last = IdleTask
    /\ before = NoSess
    /\ reloadRequested = FALSE
    /\ logoutStreak = 0
    /\ query = NoQuery

\* the calls of the task slots T, fetchWithAuth being given options of Opts, the
\* backend answering requests with Resps, /auth/refresh with Refreshes and
\* /auth/login with Logins
NextWith(T, Opts, Resps, Refreshes, Logins) ==
    \/ \E t \in T, opts \in Opts : FetchStart(t, opts)
    \/ \E t \in T, resp \in Resps : FetchResp(t, resp)
    \/ \E t \in T : RefreshStart(t)
    \/ \E t \in T, ans \in Refreshes : RefreshResp(t, ans)
    \/ \E t \in T : LoginStart(t)
    \/ \E t \in T, ans \in Logins : LoginResp(t, ans)
    \/ Logout
    \/ Reload

DefaultOptions ==
    [url |-> "/documents", method |-> "GET", body |-> "none",
     hAuth |-> Undefined, hCT |-> Undefined]

\* the login answers that differ in shape, one principal and one token pair
CoreLogins ==
    { ans \in LoginAnswers :
        /\ ans.access_token \in {Str("a1"), Undefined}
        /\ ans.user \in {Obj("admin"), Undefined} }

\* one answer per branch of the code: 500 is handled like 200, and a rejected
\* fetch or a body that is not JSON like 403
CoreResponses == Responses \ {"500"}
CoreRefreshes == { ans \in RefreshAnswers : ans.kind \in {"2xx", "403"} }

\* any interleaving of NumTasks concurrent calls, logout and reload
Next == NextWith(Tasks, {DefaultOptions}, CoreResponses, CoreRefreshes, CoreLogins)

Spec == Init /\ [][Next]_vars

\* the same interleavings with a backend that keeps to its contract: a 2xx
\* answer of /auth/login or /auth/refresh always carries what it should
ContractRefreshes == { ans \in CoreRefreshes : ans.kind = "2xx" => ~(ans.access_token = Undefined) }
ContractLogins    == { ans \in CoreLogins : ans.kind = "2xx" => ~(ans.user = Undefined) }

NextContract ==
    NextWith(Tasks, {DefaultOptions}, CoreResponses, ContractRefreshes, ContractLogins)

SpecContract == Init /\ [][NextContract]_vars

\* one call at a time (logout and reload may still fall between its segments),
\* with every kind of options
NextCall == NextWith({1}, Options, Responses, RefreshAnswers, LoginAnswers)

SpecCall == Init /\ [][NextCall]_vars

\* one call at a time with every kind of options and a backend that keeps to
\* its contract
NextOptions ==
    NextWith({1}, Options, CoreResponses, ContractRefreshes, ContractLogins)

SpecOptions == Init /\ [][NextOptions]_vars

\* one call at a time on a page that is not replaced, where every request is
\* answered in the end (by a response or by a network failure): the browser
\* settles every fetch promise and the event loop runs every continuation
NextLive ==
    \/ \E opts \in Options : FetchStart(1, opts)
    \/ \E resp \in Responses : FetchResp(1, resp)
    \/ RefreshStart(1)
    \/ \E ans \in RefreshAnswers : RefreshResp(1, ans)
    \/ LoginStart(1)
    \/ \E ans \in LoginAnswers : LoginResp(1, ans)
    \/ Logout

SpecLive ==
    /\ Init /\ [][NextLive]_vars
    /\ WF_vars(\E resp \in Responses : FetchResp(1, resp))
    /\ WF_vars(\E ans \in RefreshAnswers : RefreshResp(1, ans))
    /\ WF_vars(\E ans \in LoginAnswers : LoginResp(1, ans))

\* one call at a time, uploads included: ApiClient.upload, and fetchWithAuth
\* given a FormData body
NextUpload ==
    \/ NextWith({1}, {DefaultOptions}, Responses, ContractRefreshes, ContractLogins)
    \/ FetchStart(1, MultipartOptions)
    \/ UploadStart(1)
    \/ \E resp \in Responses : UploadResp(1, resp)

SpecUpload == Init /\ [][NextUpload]_vars

\* logins of two accounts while refreshes are in flight.  The backend keeps to
\* its contract: each login opens a session of its own (tokens a1, r1 for the
\* admin, a2, r2 for the viewer), and /auth/refresh answers with an access
\* token of the session whose refresh token the request carried
ReloginAnswers ==
    { [kind |-> "2xx", access_token |-> Str("a1"), refresh_token |-> Str("r1"),
       user |-> Obj("admin")],
      [kind |-> "2xx", access_token |-> Str("a2"), refresh_token |-> Str("r2"),
       user |-> Obj("viewer")] }

IssuedFor(rt) == IF rt = Str("r1") THEN Str("a1") ELSE Str("a2")

NextRelogin ==
    \/ \E t \in Tasks : LoginStart(t)
    \/ \E t \in Tasks, ans \in ReloginAnswers : LoginResp(t, ans)
    \/ \E t \in Tasks : RefreshStart(t)
    \/ \E t \in Tasks : FetchStart(t, DefaultOptions)
    \/ \E t \in Tasks, resp \in CoreResponses : FetchResp(t, resp)
    \/ \E t \in Tasks, ans \in ContractRefreshes :
          /\ ans.kind = "2xx" => ans.access_token = IssuedFor(tasks[t].rreq)
          /\ RefreshResp(t, ans)

SpecRelogin == Init /\ [][NextRelogin]_vars

\* concurrent fetchWithAuth calls and logins only, with a backend that keeps to
\* its contract: nobody calls logout() and the page is never replaced
NextFetches ==
    \/ \E t \in Tasks : FetchStart(t, DefaultOptions)
    \/ \E t \in Tasks, resp \in CoreResponses : FetchResp(t, resp)
    \/ \E t \in Tasks, ans \in ContractRefreshes : RefreshResp(t, ans)
    \/ \E t \in Tasks : LoginStart(t)
    \/ \E t \in Tasks, ans \in ContractLogins : LoginResp(t, ans)

SpecFetches == Init /\ [][NextFetches]_vars

----------------------------------------------------------------------------
(* The permission queries, applied to the Sessions a login can establish *)

QueryRoles      == {"admin", "user", "viewer", "guest", "constructor"}
PermissionNames == {"create", "read", "update", "delete", "manage_users",
                    "export", "approve"}

QuerySessions ==
    { NoSess }
    \cup { LoginStore(NoSess,
                      [kind |-> "2xx", access_token |-> Str(a),
                       refresh_token |-> Str(r), user |-> Obj(ro)]) :
           a \in AccessTokens, r \in RefreshTokens, ro \in QueryRoles }

InitQuery ==
    /\ PageInit
    /\ alive = TRUE
    /\ \E s \in QuerySessions : mem = s.mem /\ ls = s.ls
    /\ tasks = [u \in Tasks |-> IdleTask]
    /\ last = IdleTask
    /\ before = NoSess
    /\ reloadRequested = FALSE
    /\ logoutStreak = 0
    /\ query = NoQuery

QueryPermission(p) ==
    /\ query' = [kind |-> "hasPermission", arg |-> p, result |-> hasPermission(mem, p)]
    /\ UNCHANGED <<alive, mem, ls, tasks, reloadRequested, logoutStreak, last, before>>
    /\ UNCHANGED pageVars

QueryRole(r) ==
    /\ query' = [kind |-> "hasRole", arg |-> r,
                 result |-> IF hasRole(mem, r) THEN "true" ELSE "false"]
    /\ UNCHANGED <<alive, mem, ls, tasks, reloadRequested, logoutStreak, last, before>>
    /\ UNCHANGED pageVars

QueryAuthenticated ==
    /\ query' = [kind |-> "isAuthenticated", arg |-> "",
                 result |-> IF isAuthenticated(mem) THEN "true" ELSE "false"]
    /\ UNCHANGED <<alive, mem, ls, tasks, reloadRequested, logoutStreak, last, before>>
    /\ UNCHANGED pageVars

NextQuery ==
    \/ \E p \in PermissionNames : QueryPermission(p)
    \/ \E r \in QueryRoles : QueryRole(r)
    \/ QueryAuthenticated

SpecQuery == InitQuery /\ [][NextQuery]_vars

----------------------------------------------------------------------------
(* BatchModule.pollStatus (js/modules/batch.js; pollBatchStatus of app.js    *)
(* has the same timer, counter and tests).  The callback of setInterval runs *)
(* up to `await this.api.get(...)`; what follows the await runs when the     *)
(* answer arrives, which may be after later ticks.                           *)

\* `const maxAttempts = 30`
maxAttempts == 30

\* what `await this.api.get(...)` yields: a body with success and a status, a
\* body without success, or a rejection (network, session, body not JSON)
StatusAnswers == {"processing", "completed", "failed", "nosuccess", "error"}

Saturated(n) == IF n < 2 THEN n + 1 ELSE 2

\* pollStatus(taskId): attempts = 0 and setInterval(..., 1000)
PollStart ==
    /\ ~poll.started
    /\ poll' = [poll EXCEPT !.started = TRUE, !.active = TRUE]
    /\ UNCHANGED <<authVars, sel, selectedFiles>>

\* a tick of the interval: `attempts++`, then the status request is sent
Tick ==
    /\ poll.active
    /\ poll.inflight < MaxInFlight
    /\ poll.requests < MaxTicks
    /\ poll' = [poll EXCEPT !.attempts = @ + 1, !.inflight = @ + 1, !.requests = @ + 1]
    /\ UNCHANGED <<authVars, sel, selectedFiles>>

\* `if (attempts >= maxAttempts)`
AttemptsExhausted(attempts) == attempts >= maxAttempts

\* `response.status === 'completed' || response.status === 'failed'`
IsTerminal(ans) == ans \in {"completed", "failed"}

\* the rest of the callback, for one answer.  The backend does not take back a
\* terminal status it reported.
PollResp(ans) ==
    /\ poll.inflight > 0
    /\ (poll.reported # "none" /\ ans \in {"processing", "completed", "failed"})
            => ans = poll.reported
    /\ poll' =
         IF ans = "error"
         THEN [poll EXCEPT !.inflight = @ - 1, !.active = FALSE]
         ELSE LET fin == ans # "nosuccess" /\ IsTerminal(ans)
                  out == AttemptsExhausted(poll.attempts)
              IN  [poll EXCEPT
                      !.inflight = @ - 1,
                      !.active   = @ /\ ~fin /\ ~out,
                      !.reported = IF ans \in {"completed", "failed"} THEN ans ELSE @,
                      !.finished = IF fin THEN Saturated(@) ELSE @,
                      !.timeouts = IF out THEN Saturated(@) ELSE @,
                      !.lateTimeout = @ \/ (out /\ (fin \/ poll.finished > 0))]
    /\ UNCHANGED <<authVars, sel, selectedFiles>>

NextPoll ==
    \/ PollStart
    \/ Tick
    \/ \E ans \in StatusAnswers : PollResp(ans)

SpecPoll == Init /\ [][NextPoll]_vars

----------------------------------------------------------------------------
(* The document selection (js/modules/documents.js, js/modules/batch.js).    *)
(* Each module has a field selectedDocuments holding a reference to a Set;   *)
(* sel.same tells whether the two references are to one object, in which     *)
(* case a change made through one field shows through the other.            *)

\* the ids of the rows (`.doc-checkbox`) on the page
DocIds == 1..NumDocs

\* DocumentsModule.toggleSelection(docId), then
\* batch.updateSelection(this.selectedDocuments): `this.selectedDocuments = selectedSet`
toggleSelection(docId) ==
    /\ LET d2 == IF docId \in sel.docs THEN sel.docs \ {docId} ELSE sel.docs \cup {docId}
       IN  sel' = [sel EXCEPT !.docs = d2, !.batch = d2, !.same = TRUE, !.ended = "none"]
    /\ UNCHANGED <<authVars, poll, selectedFiles>>

\* BatchModule.toggleSelectAll: clear, add every row unless all were selected,
\* then documents.selectedDocuments = new Set(this.selectedDocuments)
toggleSelectAll ==
    /\ LET allSelected == Cardinality(sel.batch) = Cardinality(DocIds)
           b2 == IF allSelected THEN {} ELSE DocIds
       IN  sel' = [sel EXCEPT !.docs = b2, !.batch = b2, !.same = FALSE, !.ended = "none"]
    /\ UNCHANGED <<authVars, poll, selectedFiles>>

\* BatchModule.clearSelection: clear, then documents.selectedDocuments = new Set()
clearSelection ==
    /\ sel' = [sel EXCEPT !.docs = {}, !.batch = {}, !.same = FALSE, !.ended = "none"]
    /\ UNCHANGED <<authVars, poll, selectedFiles>>

\* BatchModule.deleteSelected, confirmed, up to `await this.api.post(...)`.
\* Its button is in the action bar, which updateActionBar shows only while
\* the selection of BatchModule is not empty.
DeleteStart ==
    /\ sel.pc = "idle"
    /\ sel.batch # {}
    /\ sel' = [sel EXCEPT !.pc = "awaitDelete", !.ended = "none"]
    /\ UNCHANGED <<authVars, poll, selectedFiles>>

\* deleteSelected after the answer: on response.success
\* `this.selectedDocuments.clear()`, which empties the Set object the field
\* of BatchModule refers to; otherwise a toast only
DeleteResp(ans) ==
    /\ sel.pc = "awaitDelete"
    /\ sel' = IF ans = "success"
              THEN [sel EXCEPT !.batch = {},
                               !.docs = IF sel.same THEN {} ELSE @,
                               !.pc = "idle", !.ended = "success"]
              ELSE [sel EXCEPT !.pc = "idle", !.ended = ans]
    /\ UNCHANGED <<authVars, poll, selectedFiles>>

NextSelection ==
    \/ \E docId \in DocIds : toggleSelection(docId)
    \/ toggleSelectAll
    \/ clearSelection
    \/ DeleteStart
    \/ \E ans \in {"success", "failure", "error"} : DeleteResp(ans)

SpecSelection == Init /\ [][NextSelection]_vars

----------------------------------------------------------------------------
(* The upload selection: UploadModule (unnamed/part_004) and the functions   *)
(* of app.js that keep the same list                                         *)

Pdf == "application/pdf"

\* the File objects a file input or a drop can deliver
Files ==
    { [name |-> "a.pdf", type |-> Pdf],
      [name |-> "b.pdf", type |-> Pdf],
      [name |-> "c.pdf", type |-> Pdf],
      [name |-> "d.png", type |-> "image/png"] }

FileLists == UNION { [1..n -> Files] : n \in 1..MaxBatch }

\* the test of the filter of addFiles, made against this.selectedFiles as it
\* is before the call
IsValidFile(file) ==
    /\ file.type = Pdf
    /\ ~\E i \in 1..Len(selectedFiles) : selectedFiles[i].name = file.name

\* UploadModule.addFiles: validFiles = files.filter(...), then
\* this.selectedFiles.push(...validFiles)
addFiles(files) ==
    /\ selectedFiles' = selectedFiles \o SelectSeq(files, IsValidFile)
    /\ UNCHANGED <<authVars, poll, sel>>

\* addFilesToList of app.js: files.forEach, each file tested against the list
\* as it is then, and pushed
RECURSIVE PushEach(_, _)
PushEach(list, files) ==
    IF files = <<>> THEN list
    ELSE LET file == Head(files)
             ok   == /\ file.type = Pdf
                     /\ ~\E i \in 1..Len(list) : list[i].name = file.name
         IN  PushEach(IF ok THEN Append(list, file) ELSE list, Tail(files))

addFilesToList(files) ==
    /\ selectedFiles' = PushEach(selectedFiles, files)
    /\ UNCHANGED <<authVars, poll, sel>>

\* removeFile(index): this.selectedFiles.splice(index, 1), the index being
\* that of a row of the rendered list
removeFile(index) ==
    /\ index \in 0..(Len(selectedFiles) - 1)
    /\ selectedFiles' = [i \in 1..(Len(selectedFiles) - 1) |->
                            IF i <= index THEN selectedFiles[i] ELSE selectedFiles[i + 1]]
    /\ UNCHANGED <<authVars, poll, sel>>

\* clearFiles: this.selectedFiles = []
clearFiles ==
    /\ selectedFiles' = <<>>
    /\ UNCHANGED <<authVars, poll, sel>>

NextFiles ==
    \/ \E files \in FileLists : addFiles(files)
    \/ \E index \in 0..(Len(selectedFiles) - 1) : removeFile(index)
    \/ clearFiles

SpecFiles == Init /\ [][NextFiles]_vars

\* the same list kept by app.js
NextFileList ==
    \/ \E files \in FileLists : addFilesToList(files)
    \/ \E index \in 0..(Len(selectedFiles) - 1) : removeFile(index)
    \/ clearFiles

SpecFileList == Init /\ [][NextFileList]_vars

----------------------------------------------------------------------------
(* Properties *)

Absent(x) == x.t \in {"null", "undef"}

\* the Session is absent in memory and in durable storage
AllAbsent(m, store) ==
    /\ Absent(m.token) /\ Absent(m.refreshToken) /\ Absent(m.user)
    /\ store = EmptyStore

\* a fetchWithAuth call just ended
FetchEnded == last.op = "fetch" /\ last.pc = "done"

\* what the caller gets for the response resp of the last dispatched request
Outcome(resp) == IF resp = "neterr" THEN "TransportFailure" ELSE resp

\* C1 as stated: whenever every response to the request of a fetchWithAuth call
\* was 401, the call made exactly one refresh attempt and exactly one retried
\* request, and returned the second 401.
C1_AlwaysRetriesOnce ==
    (FetchEnded /\ Len(last.got) >= 1 /\ \A i \in 1..Len(last.got) : last.got[i] = "401")
        => /\ last.rcalls = 1
           /\ last.nsent = 2
           /\ last.result = "401"

\* C1 amended: no call ever invokes refreshAccessToken twice or dispatches more
\* than two requests; a call whose first response was 401 invoked
\* refreshAccessToken exactly once, and then either the refresh succeeded, the
\* request was retried exactly once and the answer to the retry (the second 401
\* included) is what the caller gets, or the refresh failed, nothing was retried
\* and the call rejected with the session-expired error.
C1_AtMostOneRetry ==
    /\ \A t \in Tasks : tasks[t].rcalls <= 1 /\ tasks[t].rnet <= 1 /\ tasks[t].nsent <= 2
    /\ last.rcalls <= 1 /\ last.rnet <= 1 /\ last.nsent <= 2
    /\ (FetchEnded /\ Len(last.got) >= 1 /\ last.got[1] = "401")
        => /\ last.rcalls = 1
           /\ IF RefreshOk(last.rans)
              THEN /\ last.nsent = 2
                   /\ Len(last.got) = 2
                   /\ last.result = Outcome(last.got[2])
              ELSE /\ last.nsent = 1
                   /\ Len(last.got) = 1
                   /\ last.result = "SessionExpired"

C1_Witness ==
    FetchEnded /\ last.got = <<"401", "401">> /\ last.result = "401" /\ last.rcalls = 1

\* C2 as stated: in every state the principal is non-null exactly when the
\* access token is non-null.
C2_PrincipalIffToken ==
    alive => (Absent(mem.user) <=> Absent(mem.token))

\* a refresh that did not obtain a new access token
RefreshFailed(ans) == ans.kind # "2xx" \/ Absent(ans.access_token)

\* C3 as stated: whenever a refreshAccessToken call failed for any reason, a
\* 2xx answer without an access token included, it returned false and no
\* Session field is left in memory or in storage.
C3_FailedRefreshTearsDown ==
    (last.op = "refresh" /\ last.pc = "done" /\ RefreshFailed(last.rans))
        => last.result = "false" /\ AllAbsent(mem, ls)

\* C4: when refreshAccessToken returned true, refreshToken and principal are, in
\* memory and in storage, what they were when the answer arrived; the access
\* token in memory is the answer's access_token and the access_token key holds
\* its string.
C4_RefreshChangesOnlyAccessToken ==
    (last.op = "refresh" /\ last.pc = "done" /\ last.result = "true")
        => /\ mem.refreshToken = before.mem.refreshToken
           /\ mem.user = before.mem.user
           /\ ls.refresh_token = before.ls.refresh_token
           /\ ls.user = before.ls.user
           /\ mem.token = last.rans.access_token
           /\ ls.access_token = ToStr(last.rans.access_token)

C4_Witness ==
    /\ last.op = "refresh" /\ last.result = "true"
    /\ last.rans.access_token = Str("a2")
    /\ before.mem.token = Str("a1")
    /\ mem.refreshToken = Str("r1")
    /\ mem.user.t = "obj"

\* C5: a step taken while the access token is absent never starts a request of
\* fetchWithAuth, and a call that ended with the not-authenticated error was
\* made without a token, dispatched nothing, never entered
\* refreshAccessToken and left the Session as it was.
C5_NoCallWithoutSession ==
    [][ /\ Absent(mem.token)
            => \A t \in Tasks : tasks[t].pc = "idle" => tasks'[t].pc # "await1"
        /\ (last'.op = "fetch" /\ last'.result = "Unauthenticated")
            => /\ Absent(mem.token)
               /\ last'.nsent = 0 /\ last'.rnet = 0 /\ last'.rcalls = 0
               /\ mem' = mem /\ ls' = ls
               /\ ~reloadRequested' \/ reloadRequested
      ]_vars

C5_Witness ==
    FetchEnded /\ last.result = "Unauthenticated" /\ AllAbsent(mem, ls)

\* C6: after logout() (one call, or several in a row) the Session is absent in
\* memory and in storage, and one more logout() from there changes nothing.
C6_LogoutIdempotent ==
    logoutStreak >= 1
        => /\ AllAbsent(mem, ls)
           /\ logout(Sess) = Sess
           /\ (alive => ENABLED Logout)

C6_Witness ==
    logoutStreak = 2 /\ AllAbsent(mem, ls)

\* the table of the claim
Granted(role, action) ==
    \/ role = "admin"  /\ action \in {"create", "read", "update", "delete", "manage_users"}
    \/ role = "user"   /\ action \in {"create", "read", "update"}
    \/ role = "viewer" /\ action = "read"

\* C7 as stated: hasPermission(action) is true exactly for the table's pairs and
\* false for every other role, and for an absent session, whatever the action.
C7_PermissionTable ==
    query.kind = "hasPermission"
        => query.result =
             IF ~Absent(mem.user) /\ Granted(mem.user.v, query.arg) THEN "true" ELSE "false"

\* C8: a call that got 401, then a refresh that returned a token, then 200 on
\* the retry, returns the 200; the retried request is the caller's request
\* with only the Authorization header replaced by the refreshed token; and,
\* nothing else having touched the Session during the retry, the Session's
\* access token is the refreshed one.
C8_TransparentRefresh ==
    (FetchEnded /\ last.got = <<"401", "200">>)
        => /\ last.result = "200"
           /\ RefreshOk(last.rans)
           /\ last.req = [BuildRequest(last.opts, NoSession)
                            EXCEPT !.auth = Bearer(last.rans.access_token)]
           /\ last.clean => mem.token = last.rans.access_token

C8_Witness ==
    /\ FetchEnded /\ last.got = <<"401", "200">> /\ last.clean
    /\ last.rans.access_token = Str("a2")
    /\ last.opts.method = "POST"
    /\ mem.token = Str("a2")

C10_AbsentUntilLogin ==
    [][ (AllAbsent(mem, ls) /\ last'.op # "login") => Absent(mem'.token) ]_vars


\* C11: a call whose first response has a status other than 401 dispatched one
\* request, returns that response, never entered refreshAccessToken, and left
\* the Session (memory and storage) as it was.
C11_FastPath ==
    (FetchEnded /\ Len(last.got) = 1 /\ last.got[1] \notin {"401", "neterr"})
        => /\ last.result = last.got[1]
           /\ last.nsent = 1
           /\ last.rcalls = 0 /\ last.rnet = 0
           /\ Sess = before
           /\ logoutStreak = 0

C11_Witness ==
    /\ FetchEnded /\ last.got = <<"500">> /\ last.result = "500"
    /\ isAuthenticated(mem)

\* C12: a call whose request, or whose retry, failed at network level rejects
\* with that failure, entered refreshAccessToken only for an earlier 401, and
\* the failing step left the Session as it was; a refresh whose own request
\* failed at network level destroyed the Session.
C12_TransportFailure ==
    /\ (FetchEnded /\ Len(last.got) >= 1 /\ last.got[Len(last.got)] = "neterr")
        => /\ last.result = "TransportFailure"
           /\ last.rcalls = Len(last.got) - 1
           /\ last.nsent = Len(last.got)
           /\ Sess = before
           /\ logoutStreak = 0
    /\ (last.pc = "done" /\ last.rans.kind = "neterr" /\ Len(last.got) <= 1)
        => /\ last.result \in {"false", "SessionExpired"}
           /\ AllAbsent(mem, ls)

C12_Witness ==
    /\ FetchEnded /\ last.got = <<"401", "neterr">> /\ last.result = "TransportFailure"
    /\ isAuthenticated(mem)

\* C13: no step taken while the refresh token is absent sends a request to
\* /auth/refresh, and a refreshAccessToken call made without a refresh token
\* returned false at once, with no request and with the whole Session
\* destroyed.
C13_RefreshPrecondition ==
    [][ /\ ~Truthy(mem.refreshToken)
            => \A t \in Tasks : tasks'[t].pc = "awaitRefresh" => tasks[t].pc = "awaitRefresh"
        /\ ( /\ last'.op = "refresh" /\ last'.pc = "done"
             /\ \A t \in Tasks : tasks'[t].pc = tasks[t].pc
             /\ ~Truthy(mem.refreshToken) )
            => /\ last'.result = "false"
               /\ last'.rnet = 0
               /\ AllAbsent(mem', ls')
        /\ (last'.op = "fetch" /\ last'.pc = "done" /\ last'.rcalls = 1 /\ last'.rnet = 0)
            => /\ last'.result = "SessionExpired"
               /\ AllAbsent(mem', ls')
      ]_vars

C13_Witness ==
    /\ last.op = "refresh" /\ last.result = "false" /\ last.rnet = 0
    /\ Truthy(before.mem.token)
    /\ AllAbsent(mem, ls)

\* C14: a login that returns a failure result left the three Session fields,
\* in memory and in storage, as they were when its answer arrived.
C14_LoginFailureKeepsSession ==
    (last.op = "login" /\ last.pc = "done" /\ last.result = "loginFail")
        => Sess = before

\* a refresh answer arrives, in a refreshAccessToken call or inside
\* fetchWithAuth, that counts as a failed refresh
RefreshFailureStep ==
    \E t \in Tasks :
        /\ tasks[t].pc = "awaitRefresh"
        /\ \/ tasks'[t].pc = "await2" /\ RefreshFailed(tasks'[t].rans)
           \/ tasks'[t].pc = "idle" /\ last'.pc = "done" /\ RefreshFailed(last'.rans)

\* C15: a login that returns success leaves all three fields set, in memory
\* and in storage, in the step that handles its answer, and isAuthenticated()
\* turns from true to false only in a step that runs logout() or handles a
\* failed refresh.
C15_AtomicLogin ==
    [][ /\ (last'.op = "login" /\ last'.pc = "done" /\ last'.result = "loginOk"
                /\ \E t \in Tasks : tasks[t].pc = "awaitLogin" /\ tasks'[t].pc = "idle")
            => /\ Truthy(mem'.token) /\ Truthy(mem'.refreshToken) /\ Truthy(mem'.user)
               /\ ~Absent(ls'.access_token) /\ ~Absent(ls'.refresh_token)
               /\ ~Absent(ls'.user)
               /\ isAuthenticated(mem')
        /\ (alive /\ isAuthenticated(mem) /\ ~(alive' /\ isAuthenticated(mem')))
            => (logoutStreak' >= 1 \/ RefreshFailureStep)
      ]_vars

\* C16: in every state between two steps a new AuthManager can be constructed
\* from the three storage keys, and its Session is the one the running
\* AuthManager holds in memory.
C16_PersistenceRoundTrip ==
    alive => /\ ~ConstructorThrows(ls)
             /\ Constructed(ls) = mem

\* C17: every step that dispatches a request of fetchWithAuth, the first one
\* or the retry, gives it the Authorization header built from the access
\* token the Session holds at that moment, which is not absent, and leaves the
\* caller's options as they were passed.
C17_CredentialInjection ==
    [][ \A t \in Tasks :
            (tasks'[t].op = "fetch" /\ tasks'[t].nsent > tasks[t].nsent)
                => /\ ~Absent(mem'.token)
                   /\ tasks'[t].req.auth = Bearer(mem'.token)
                   /\ (tasks[t].op = "fetch" => tasks'[t].opts = tasks[t].opts)
      ]_vars

\* C18: no operation of AuthManager asks the browser to reload the page.
C18_NoNavigation == reloadRequested = FALSE

\* C19: a retried request in flight carries the access token of the refresh
\* answer its own call received, whatever the shared Session holds by now.
C19_RetryCarriesOwnToken ==
    \A t \in Tasks :
        tasks[t].pc = "await2" => tasks[t].req.auth = Bearer(tasks[t].rans.access_token)

C19_Witness ==
    \E t \in Tasks :
        /\ tasks[t].pc = "await2"
        /\ Truthy(tasks[t].rans.access_token)
        /\ tasks[t].req.auth = Bearer(tasks[t].rans.access_token)
        /\ Truthy(mem.token)
        /\ mem.token # tasks[t].rans.access_token

\* C20: when the last fetchWithAuth call in flight has completed and its
\* refresh was the last thing that changed the Session, the Session holds that
\* refresh's access token together with a refresh token and a principal; when
\* its refresh failed, the Session is absent in memory and in storage.
C20_LastRefreshWins ==
    /\ ( /\ FetchEnded /\ last.nsent = 2 /\ last.clean
         /\ \A t \in Tasks : tasks[t].pc = "idle" )
        => /\ mem.token = last.rans.access_token
           /\ Truthy(mem.refreshToken)
           /\ Truthy(mem.user)
    /\ (FetchEnded /\ last.result = "SessionExpired") => AllAbsent(mem, ls)

\* the refresh bookkeeping of one fetchWithAuth call
OwnRefreshOnce(tk) ==
    /\ tk.rcalls <= 1 /\ tk.rnet <= tk.rcalls
    /\ tk.nsent <= 2
    /\ (Len(tk.got) >= 1 /\ tk.got[1] = "401") => tk.rcalls = 1
    /\ tk.pc = "awaitRefresh" => tk.rnet = 1
    /\ tk.pc = "await2" => (tk.rnet = 1 /\ tk.nsent = 2)

\* C21: every fetchWithAuth call whose first response was 401 has invoked
\* refreshAccessToken exactly once, a call waiting for a refresh answer waits
\* for the one request to /auth/refresh it sent itself, and no call invokes
\* the refresh twice or dispatches more than two requests, however many calls
\* are in flight.
C21_IndependentRefresh ==
    /\ \A t \in Tasks : tasks[t].op = "fetch" => OwnRefreshOnce(tasks[t])
    /\ FetchEnded => OwnRefreshOnce(last)

C21_Witness ==
    \E t, u \in Tasks :
        /\ t # u
        /\ tasks[t].op = "fetch" /\ tasks[t].pc = "awaitRefresh" /\ tasks[t].rnet = 1
        /\ tasks[u].op = "fetch" /\ tasks[u].pc = "awaitRefresh" /\ tasks[u].rnet = 1

\* the errors fetchWithAuth rejects with
CallRejections == {"Unauthenticated", "SessionExpired", "TransportFailure"}

\* how a fetchWithAuth call may end, given what it sent and received
EndsProperly(tk) ==
    /\ tk.result \in CallRejections \cup (Responses \ {"neterr"})
    /\ tk.result \notin CallRejections => tk.result = tk.got[Len(tk.got)]
    /\ tk.result = "Unauthenticated" <=> tk.nsent = 0
    /\ tk.result = "TransportFailure" <=> (tk.nsent > 0 /\ tk.got[Len(tk.got)] = "neterr")
    /\ tk.result = "SessionExpired" <=> (tk.rcalls = 1 /\ tk.nsent = 1)

\* C22: a fetchWithAuth call in flight ends; it ends with the last response
\* it received or with one of Unauthenticated, SessionExpired and
\* TransportFailure, a failed request always ending it with TransportFailure
\* and a failed refresh with SessionExpired; it never has more than three
\* network calls behind it.
C22_EveryCallCompletes ==
    /\ [](FetchEnded => EndsProperly(last))
    /\ [](\A t \in Tasks : tasks[t].nsent + tasks[t].rnet <= 3)
    /\ [](last.nsent + last.rnet <= 3)
    /\ \A t \in Tasks : (tasks[t].op = "fetch") ~> FetchEnded

C22_Witness ==
    /\ FetchEnded /\ last.nsent = 2 /\ last.rnet = 1
    /\ last.result = "500"

\* C23: a request dispatched by fetchWithAuth carries no Content-Type header
\* when the caller's body is multipart, and Content-Type: application/json
\* when it is not and the caller gave no Content-Type of its own.
C23_ContentTypeByBody ==
    \A t \in Tasks :
        (tasks[t].op = "fetch" /\ tasks[t].pc \in {"await1", "await2"})
            => /\ tasks[t].req.body = "multipart" => tasks[t].req.ctype = Undefined
               /\ (tasks[t].req.body # "multipart" /\ tasks[t].opts.hCT = Undefined)
                    => tasks[t].req.ctype = Str("application/json")

\* C26: an upload in flight has dispatched its one request and has not
\* entered refreshAccessToken; an
\* upload that ended received one answer, rejected on every answer other than
\* a 2xx status, 401 included, and its ending left the Session, in memory and
\* in storage, as it was.
C26_UploadBypassesRefresh ==
    /\ \A t \in Tasks :
        tasks[t].op = "upload"
            => /\ tasks[t].pc = "awaitUpload"
               /\ tasks[t].nsent = 1 /\ tasks[t].rcalls = 0 /\ tasks[t].rnet = 0
    /\ (last.op = "upload" /\ last.pc = "done")
            => /\ last.nsent = 1 /\ Len(last.got) = 1
               /\ last.rcalls = 0 /\ last.rnet = 0
               /\ last.result = "resolved" <=> last.got[1] = "200"
               /\ last.result = "UploadFailed" <=> last.got[1] # "200"
               /\ Sess = before
               /\ logoutStreak = 0

C26_Witness ==
    /\ last.op = "upload" /\ last.pc = "done"
    /\ last.got = <<"401">> /\ last.result = "UploadFailed"
    /\ isAuthenticated(mem)
    /\ last.req.auth = Bearer(mem.token)

\* C24: in every state in which hasPermission grants some action or hasRole
\* is truthy for some role, isAuthenticated() is true (the Session holds an
\* access token).
C24_AuthorizationImpliesAuthentication ==
    ( \/ \E p \in PermissionNames : hasPermission(mem, p) = "true"
      \/ \E r \in QueryRoles : hasRole(mem, r) )
        => (isAuthenticated(mem) /\ ~Absent(mem.token))

\* C25: whenever the Session holds an access token and a refresh token, the
\* access token is one the backend issued for that refresh token, however
\* logins and refreshes started before them interleave.
C25_TokenOfCurrentLogin ==
    (Truthy(mem.token) /\ Truthy(mem.refreshToken))
        => mem.token = IssuedFor(mem.refreshToken)

\* C27: one pollStatus never issues more than 30 status requests.
C27_BoundedPolling == poll.requests <= maxAttempts

\* C28: one pollStatus calls finishBatch at most once and shows no timeout
\* toast together with or after the call of finishBatch.
C28_SingleCompletion == poll.finished <= 1 /\ ~poll.lateTimeout

\* C29: the selectedDocuments of DocumentsModule and of BatchModule hold the
\* same ids in every state, and both are empty when deleteSelected has just
\* ended with success.
C29_SelectionInSync ==
    /\ sel.docs = sel.batch
    /\ sel.ended = "success" => (sel.docs = {} /\ sel.batch = {})

\* C30: selectedFiles holds only files of type application/pdf and no two
\* entries with the same name.
C30_NoDuplicateFiles ==
    /\ \A i \in 1..Len(selectedFiles) : selectedFiles[i].type = Pdf
    /\ \A i, j \in 1..Len(selectedFiles) :
          i # j => selectedFiles[i].name # selectedFiles[j].name

====
